---- MODULE Spec2Model ----
(***************************************************************************)
(* RDMA file transfer: the sender (src/src/rdma_file_client.c, main) and   *)
(* the receiver (src/unnamed/part_000, rdma_file_server.c, main) as two    *)
(* sequential processes joined by a reliable-connection queue pair.        *)
(*                                                                         *)
(* Each process is a program counter named after the source line it is     *)
(* about to execute (c89 = client line 89, s65 = server line 65).  One     *)
(* action models one library call together with the checks the code makes  *)
(* on its result.  The transport and the file system are the environment.  *)
(*                                                                         *)
(* A uint64_t is kept as its 8 base-256 digits, most significant first, so *)
(* that byte order conversions are computed and 64-bit values never leave  *)
(* the range of model values.                                              *)
(*                                                                         *)
(* Environment assumptions: ibv_poll_cq returns 0 or 1 (never an error),   *)
(* and the setup calls whose result the code never looks at succeed        *)
(* (event channel, address info, ids, bind, listen, address and route      *)
(* resolution, protection domain, completion queue, queue pair, memory     *)
(* registration).  Every other call may fail as described at its action.   *)
(***************************************************************************)
EXTENDS Integers, Sequences, FiniteSets, TLC

\* ------------------------------------------------------------------------
\* Bounds of the model
\* ------------------------------------------------------------------------

\* BUF_SIZE of both programs (4096 in the source), scaled down to the
\* smallest capacity that still holds the 8-byte header.
BUF_SIZE == 8

\* Longest source file: two full chunks and one byte.
MaxLen == 17

\* How many times the environment may change the source file while the
\* sender has it open.
MaxChanges == 1

\* sizeof(uint64_t), the size of the header (net_size).
HDR_SIZE == 8

\* ------------------------------------------------------------------------
\* Bytes, sequences and 64-bit values
\* ------------------------------------------------------------------------

Min(a, b) == IF a < b THEN a ELSE b

Reverse(s) == [i \in 1..Len(s) |-> s[Len(s) + 1 - i]]

Take(s, n) == SubSeq(s, 1, n)

\* The buffer after n bytes of data were stored at its start.
StoreAt0(buf, data) == [i \in 1..Len(buf) |-> IF i <= Len(data) THEN data[i] ELSE buf[i]]

\* A malloc'ed buffer nobody has written yet; neither program reads a byte
\* of it before writing it, so one filler value stands for any content.
EmptyBuf == [i \in 1..BUF_SIZE |-> 170]

\* The 64-bit value n (n < 65536) as 8 digits, most significant first.
U64(n) == <<0, 0, 0, 0, 0, 0, n \div 256, n % 256>>

Hi32(x) == SubSeq(x, 1, 4)

Lo32(x) == SubSeq(x, 5, 8)

\* total < file_size, for a small total and a 64-bit file_size.
NatLtU64(n, x) == (\E i \in 1..6 : x[i] # 0) \/ n < x[7] * 256 + x[8]

\* n = x, for a small n and a 64-bit x.
NatEqU64(n, x) == x = U64(n)

\* htonl/ntohl of a 32-bit value (4 digits) on a host of the given byte
\* order: a byte swap on little-endian, the identity on big-endian.
htonl(w, le) == IF le THEN Reverse(w) ELSE w

htonll_SwapHalvesOnly(x, le) == IF le THEN Lo32(x) \o Hi32(x) ELSE x

\* client line 15-21
htonll(x, le) == IF le THEN htonl(Lo32(x), le) \o htonl(Hi32(x), le) ELSE x

\* server line 16-22
ntohll(x, le) == IF le THEN htonl(Lo32(x), le) \o htonl(Hi32(x), le) ELSE x

\* memcpy(buf, &net_size, 8): the object representation of a 64-bit value,
\* lowest address first.
StoreU64(x, le) == IF le THEN Reverse(x) ELSE x

\* memcpy(&net_size, buf, 8)
LoadU64(bytes, le) == IF le THEN Reverse(bytes) ELSE bytes

\* client line 76, 85: the 8 header bytes the sender puts in its buffer
EncodeHeader(x, le) == StoreU64(htonll(x, le), le)

\* server line 79-80: the length the receiver reads from 8 buffer bytes
DecodeHeader(bytes, le) == ntohll(LoadU64(bytes, le), le)

\* ------------------------------------------------------------------------
\* Files
\* ------------------------------------------------------------------------

\* Source file contents: every byte differs from its neighbours, so that a
\* lost, repeated or reordered byte shows.
Pattern(L, seed) == [i \in 1..L |-> (seed + i) % 256]

\* Lengths around the chunk boundaries.
SrcLens == {L \in 0..MaxLen : L % BUF_SIZE \in {0, 1, BUF_SIZE - 1}}

SrcFiles == {Pattern(L, 0) : L \in SrcLens}

\* What received_file.bin holds before the run.
OldDst == <<200, 201>>


\* ------------------------------------------------------------------------
\* State
\* ------------------------------------------------------------------------

VARIABLES
    \* the build targets: TRUE where __BYTE_ORDER == __LITTLE_ENDIAN
    cLE, sLE,
    \* sender (client main): position, locals, resources
    cpc,            \* line the client is about to execute
    cacq, crel,     \* resources acquired / released by the client, in order
    cevt,           \* the event the client has read and not acknowledged
    cbuf,           \* client buf
    fpos,           \* read offset of the stream f
    c_file_size,    \* client file_size
    r,              \* client r, the last fread count
    cwc,            \* client wc
    clog,           \* the send work requests the client has posted, in order
    csent,          \* data bytes whose send completion the client has seen
    \* receiver (server main)
    spc, sacq, srel, sevt,
    sbuf,           \* server buf
    s_file_size,    \* server file_size
    total,          \* server total
    swc,            \* server wc
    slog,           \* the completions the server has consumed, in order
    \* connection manager and queue pairs
    conn,           \* "idle", "requested", "accepted", "established", "rejected"
    cevq, sevq,     \* events waiting on each event channel
    sq,             \* client send queue: posted, not yet completed
    rq,             \* server receive queue: number posted, not yet completed
    ccq, scq,       \* completion queues
    \* files
    srcFile, dstFile, nchg,
    \* what has gone wrong so far in the environment
    hist,
    \* header codec exercised on its own (SpecHeader)
    hdrStep, hdrIn, hdrWire, hdrOut

platform == <<cLE, sLE>>

cres == <<cacq, crel, cevt>>

cloc == <<cbuf, fpos, c_file_size, r, cwc, clog, csent>>

cvars == <<cpc, cres, cloc>>

sres == <<sacq, srel, sevt>>

sloc == <<sbuf, s_file_size, total, swc, slog>>

svars == <<spc, sres, sloc>>

cm == <<conn, cevq, sevq>>

qp == <<sq, rq, ccq, scq>>

files == <<srcFile, dstFile, nchg>>

hdr == <<hdrStep, hdrIn, hdrWire, hdrOut>>

vars == <<platform, cvars, svars, cm, qp, files, hist, hdr>>

NoWc == [status |-> "none", byte_len |-> 0, kind |-> "none"]

Zero64 == U64(0)

InitCommon ==
    /\ cpc = "c29" /\ cacq = <<>> /\ crel = <<>>
    /\ cevt = "none" /\ cbuf = EmptyBuf /\ fpos = 0 /\ c_file_size = Zero64
    /\ r = 0 /\ cwc = NoWc /\ clog = <<>> /\ csent = 0
    /\ spc = "s25" /\ sacq = <<>> /\ srel = <<>>
    /\ sevt = "none" /\ sbuf = EmptyBuf /\ s_file_size = Zero64
    /\ total = 0 /\ swc = NoWc /\ slog = <<>>
    /\ conn = "idle" /\ cevq = <<>> /\ sevq = <<>>
    /\ sq = <<>> /\ rq = 0 /\ ccq = <<>> /\ scq = <<>>
    /\ dstFile = OldDst /\ nchg = 0
    /\ hist = {}

Init ==
    /\ InitCommon
    /\ cLE \in BOOLEAN /\ sLE \in BOOLEAN
    /\ srcFile \in SrcFiles
    /\ hdrStep = "off" /\ hdrIn = Zero64 /\ hdrWire = Zero64 /\ hdrOut = Zero64

ClientEnded == cpc \in {"exit0", "exit1", "crash"}

ServerEnded == spc \in {"exit0", "exit1", "crash"}

\* ------------------------------------------------------------------------
\* Sender: src/src/rdma_file_client.c, main
\* ------------------------------------------------------------------------

\* A call that succeeds: it may acquire or release resources.
ClientGoto(from, to, what, undo) ==
    /\ cpc = from
    /\ cpc' = to
    /\ cacq' = cacq \o what
    /\ crel' = crel \o undo
    /\ UNCHANGED <<cevt, cloc, svars, cm, qp, files, hist, hdr, platform>>

\* line 29: rdma_create_event_channel
ClientCreateChannel == ClientGoto("c29", "c35", <<"ec">>, <<>>)

\* line 35-36: malloc; a null result is the one setup failure the code checks
ClientMalloc ==
    /\ cpc = "c35"
    /\ \/ /\ cpc' = "c39"
          /\ cacq' = Append(cacq, "buf")
       \/ /\ cpc' = "exit1"
          /\ UNCHANGED cacq
    /\ UNCHANGED <<crel, cevt, cloc, svars, cm, qp, files, hist, hdr, platform>>

\* line 38-39: rdma_getaddrinfo
ClientGetAddrInfo == ClientGoto("c39", "c41", <<"res">>, <<>>)

\* line 41: rdma_create_id
ClientCreateId == ClientGoto("c41", "c42", <<"id">>, <<>>)

\* line 42 and 48: rdma_resolve_addr / rdma_resolve_route start a resolution
\* whose outcome arrives as an event.
ClientResolve(from, to, e) ==
    /\ cpc = from
    /\ cpc' = to
    /\ cevq' = Append(cevq, e)
    /\ UNCHANGED <<cres, cloc, svars, conn, sevq, qp, files, hist, hdr, platform>>

ClientResolveAddr == ClientResolve("c42", "c45", "ADDR_RESOLVED")

ClientResolveRoute == ClientResolve("c48", "c49", "ROUTE_RESOLVED")

\* line 45, 49, 65: rdma_get_cm_event blocks until an event is there; the
\* code looks neither at its return value nor at the event's type.  Reading
\* the connect response is what moves the client's queue pair to the
\* connected state.  When the call fails (mayFail), event is not set and
\* keeps the pointer of the event acknowledged before.
ClientGetEvent(from, to, mayFail) ==
    /\ cpc = from
    /\ cpc' = to
    /\ \/ /\ cevq # <<>>
          /\ cevt' = Head(cevq)
          /\ cevq' = Tail(cevq)
          /\ conn' = IF Head(cevq) = "ESTABLISHED" THEN "established" ELSE conn
       \/ /\ mayFail
          /\ cevt' = "stale"
          /\ UNCHANGED <<cevq, conn>>
    /\ UNCHANGED <<cacq, crel, cloc, svars, sevq, qp, files, hist, hdr, platform>>

ClientAckEvent_Forget(from, to) ==
    /\ cpc = from
    /\ cevt # "none"
    /\ cpc' = to
    /\ UNCHANGED <<cres, cloc, svars, cm, qp, files, hist, hdr, platform>>

\* line 46, 50, 66: rdma_ack_cm_event; acknowledging a stale pointer frees
\* an event twice, which the build may survive or not.
ClientAckEvent(from, to) ==
    /\ cpc = from
    /\ cevt # "none"
    /\ \/ cpc' = to
       \/ cevt = "stale" /\ cpc' = "crash"
    /\ cevt' = "none"
    /\ UNCHANGED <<cacq, crel, cloc, svars, cm, qp, files, hist, hdr, platform>>

ClientGetEvent1 == ClientGetEvent("c45", "c46", FALSE)

ClientAckEvent1 == ClientAckEvent("c46", "c48")

ClientGetEvent2 == ClientGetEvent("c49", "c50", FALSE)

ClientAckEvent2 == ClientAckEvent("c50", "c52")

\* line 52: ibv_alloc_pd
ClientAllocPd == ClientGoto("c52", "c53", <<"pd">>, <<>>)

\* line 53: ibv_create_cq
ClientCreateCq == ClientGoto("c53", "c60", <<"cq">>, <<>>)

\* line 55-60: rdma_create_qp
ClientCreateQp == ClientGoto("c60", "c62", <<"qp">>, <<>>)

\* line 62: ibv_reg_mr
ClientRegMr == ClientGoto("c62", "c64", <<"mr">>, <<>>)

ServerListening == spc \in {"s44"}

\* line 64: rdma_connect.  A listening server gets the connection request;
\* without a listener the request is rejected.
ClientConnect ==
    /\ cpc = "c64"
    /\ cpc' = "c65"
    /\ IF ServerListening /\ conn = "idle"
       THEN /\ conn' = "requested"
            /\ sevq' = Append(sevq, "CONNECT_REQUEST")
            /\ UNCHANGED cevq
       ELSE /\ conn' = "rejected"
            /\ cevq' = Append(cevq, "REJECTED")
            /\ UNCHANGED sevq
    /\ UNCHANGED <<cres, cloc, svars, qp, files, hist, hdr, platform>>

\* line 65: the wait for the connection-established event may itself fail
ClientGetEvent3 == ClientGetEvent("c65", "c66", TRUE)

ClientAckEvent3 == ClientAckEvent("c66", "c71")

\* line 71-72: fopen; exit(1) when it fails
ClientFopen ==
    /\ cpc = "c71"
    /\ \/ /\ cpc' = "c74"
          /\ cacq' = Append(cacq, "f")
          /\ fpos' = 0
       \/ /\ cpc' = "exit1"
          /\ UNCHANGED <<cacq, fpos>>
    /\ UNCHANGED <<crel, cevt, cbuf, c_file_size, r, cwc, clog, csent,
                   svars, cm, qp, files, hist, hdr, platform>>

ClientStat_SkipHeader ==
    /\ cpc = "c74"
    /\ cpc' = "c95"
    /\ c_file_size' = U64(Len(srcFile))
    /\ UNCHANGED <<cres, cbuf, fpos, r, cwc, clog, csent,
                   svars, cm, qp, files, hist, hdr, platform>>

\* line 73-75: stat gives the size the file has now; exit(1) when it fails
ClientStat ==
    /\ cpc = "c74"
    /\ \/ /\ cpc' = "c85"
          /\ c_file_size' = U64(Len(srcFile))
       \/ /\ cpc' = "exit1"
          /\ UNCHANGED c_file_size
    /\ UNCHANGED <<cres, cbuf, fpos, r, cwc, clog, csent,
                   svars, cm, qp, files, hist, hdr, platform>>

\* ibv_post_send of n bytes of buf: a nonzero return ends the process; else
\* one signaled send work request is queued.  The bytes leave the buffer
\* when the transport sends them.
PostSend(kind, n, next) ==
    \/ /\ cpc' = "exit1"
       /\ UNCHANGED <<sq, clog>>
    \/ /\ cpc' = next
       /\ sq' = Append(sq, [kind |-> kind, len |-> n])
       /\ clog' = Append(clog, [kind |-> kind, len |-> n])

\* line 76, 85-89: encode the size, copy it to buf, post the header send
ClientPostHeader ==
    /\ cpc = "c85"
    /\ cbuf' = StoreAt0(cbuf, EncodeHeader(c_file_size, cLE))
    /\ PostSend("hdr", HDR_SIZE, "c90")
    /\ UNCHANGED <<cres, fpos, c_file_size, r, cwc, csent,
                   svars, cm, rq, ccq, scq, files, hist, hdr, platform>>

ClientPoll_NoWait(from, next, credit) ==
    /\ cpc = from
    /\ cpc' = next
    /\ csent' = csent + credit
    /\ UNCHANGED <<cres, cbuf, fpos, c_file_size, r, cwc, clog,
                   svars, cm, sq, rq, ccq, scq, files, hist, hdr, platform>>

\* line 90-91, 101-102: spin until the completion queue yields an entry,
\* exit(1) unless its status is success
ClientPoll(from, next, credit) ==
    /\ cpc = from
    /\ ccq # <<>>
    /\ cwc' = Head(ccq)
    /\ ccq' = Tail(ccq)
    /\ IF Head(ccq).status = "ok"
       THEN cpc' = next /\ csent' = csent + credit
       ELSE cpc' = "exit1" /\ UNCHANGED csent
    /\ UNCHANGED <<cres, cbuf, fpos, c_file_size, r, clog,
                   svars, cm, sq, rq, scq, files, hist, hdr, platform>>

ClientPollHeader == ClientPoll("c90", "c95", 0)

Avail_OneLess == IF fpos <= Len(srcFile) THEN Min(BUF_SIZE - 1, Len(srcFile) - fpos) ELSE 0

Avail_WholeRest == IF fpos <= Len(srcFile) THEN Len(srcFile) - fpos ELSE 0

\* Bytes fread can deliver from the current offset.
Avail == IF fpos <= Len(srcFile) THEN Min(BUF_SIZE, Len(srcFile) - fpos) ELSE 0

\* line 95: fread of up to BUF_SIZE bytes into buf; 0 at end of file and on
\* a read error, which the loop does not tell apart
ClientFread ==
    /\ cpc = "c95"
    /\ \/ /\ r' = Avail
          /\ cbuf' = StoreAt0(cbuf, SubSeq(srcFile, fpos + 1, fpos + Avail))
          /\ fpos' = fpos + Avail
          /\ UNCHANGED hist
       \/ /\ Avail > 0
          /\ r' = 0
          /\ hist' = hist \cup {"rderr"}
          /\ UNCHANGED <<cbuf, fpos>>
    /\ cpc' = IF r' > 0 THEN "c100" ELSE "c104"
    /\ UNCHANGED <<cres, c_file_size, cwc, clog, csent,
                   svars, cm, qp, files, hdr, platform>>

\* line 96-100: post the r bytes just read
ClientPostData ==
    /\ cpc = "c100"
    /\ PostSend("data", r, "c101")
    /\ UNCHANGED <<cres, cbuf, fpos, c_file_size, r, cwc, csent,
                   svars, cm, rq, ccq, scq, files, hist, hdr, platform>>

ClientPollData == ClientPoll("c101", "c95", r)

\* line 104: fclose
ClientFclose == ClientGoto("c104", "c106", <<>>, <<"f">>)

\* line 106: printf "File sent successfully"
ClientReportSent == ClientGoto("c106", "c108", <<>>, <<>>)

\* line 108: rdma_disconnect
ClientDisconnect == ClientGoto("c108", "c109", <<>>, <<>>)

\* line 109: rdma_destroy_qp
ClientDestroyQp == ClientGoto("c109", "c110", <<>>, <<"qp">>)

\* line 110: ibv_dereg_mr
ClientDeregMr == ClientGoto("c110", "c111", <<>>, <<"mr">>)

\* line 111: free
ClientFree == ClientGoto("c111", "c112", <<>>, <<"buf">>)

\* line 112: rdma_destroy_id
ClientDestroyId == ClientGoto("c112", "c113", <<>>, <<"id">>)

\* line 113-114: rdma_destroy_event_channel; return 0
ClientDestroyChannel == ClientGoto("c113", "exit0", <<>>, <<"ec">>)

\* The sender has reported success.
ClientComplete == cpc \in {"c108", "c109", "c110", "c111", "c112", "c113", "exit0"}

ClientFileOpen == cpc \in {"c74", "c85", "c90", "c95", "c100", "c101"}

Client ==
    \/ ClientCreateChannel \/ ClientMalloc \/ ClientGetAddrInfo \/ ClientCreateId
    \/ ClientResolveAddr \/ ClientGetEvent1 \/ ClientAckEvent1
    \/ ClientResolveRoute \/ ClientGetEvent2 \/ ClientAckEvent2
    \/ ClientAllocPd \/ ClientCreateCq \/ ClientCreateQp \/ ClientRegMr
    \/ ClientConnect \/ ClientGetEvent3 \/ ClientAckEvent3
    \/ ClientFopen \/ ClientStat
    \/ ClientPostHeader \/ ClientPollHeader
    \/ ClientFread \/ ClientPostData \/ ClientPollData
    \/ ClientFclose \/ ClientReportSent
    \/ ClientDisconnect \/ ClientDestroyQp \/ ClientDeregMr \/ ClientFree
    \/ ClientDestroyId \/ ClientDestroyChannel


\* ------------------------------------------------------------------------
\* Receiver: src/unnamed/part_000 (rdma_file_server.c), main
\* ------------------------------------------------------------------------

ServerGoto(from, to, what, undo) ==
    /\ spc = from
    /\ spc' = to
    /\ sacq' = sacq \o what
    /\ srel' = srel \o undo
    /\ UNCHANGED <<sevt, sloc, cvars, cm, qp, files, hist, hdr, platform>>

\* line 25: rdma_create_event_channel
ServerCreateChannel == ServerGoto("s25", "s31", <<"ec">>, <<>>)

\* line 31-32: malloc, checked
ServerMalloc ==
    /\ spc = "s31"
    /\ \/ /\ spc' = "s36"
          /\ sacq' = Append(sacq, "buf")
       \/ /\ spc' = "exit1"
          /\ UNCHANGED sacq
    /\ UNCHANGED <<srel, sevt, sloc, cvars, cm, qp, files, hist, hdr, platform>>

\* line 34-36: rdma_getaddrinfo
ServerGetAddrInfo == ServerGoto("s36", "s38", <<"res">>, <<>>)

\* line 38: rdma_create_id of the listening id
ServerCreateId == ServerGoto("s38", "s39", <<"listen_id">>, <<>>)

\* line 39: rdma_bind_addr
ServerBind == ServerGoto("s39", "s40", <<>>, <<>>)

\* line 40-41: rdma_listen with a backlog of 1
ServerListen == ServerGoto("s40", "s44", <<>>, <<>>)

\* line 44-45: rdma_get_cm_event blocks for the connection request, whose
\* id becomes conn_id
ServerGetEvent ==
    /\ spc = "s44"
    /\ sevq # <<>>
    /\ sevt' = Head(sevq)
    /\ sevq' = Tail(sevq)
    /\ sacq' = Append(sacq, "conn_id")
    /\ spc' = "s46"
    /\ UNCHANGED <<srel, sloc, cvars, conn, cevq, qp, files, hist, hdr, platform>>

\* line 46: rdma_ack_cm_event
ServerAckEvent ==
    /\ spc = "s46"
    /\ sevt # "none"
    /\ spc' = "s48"
    /\ sevt' = "none"
    /\ UNCHANGED <<sacq, srel, sloc, cvars, cm, qp, files, hist, hdr, platform>>

\* line 48: ibv_alloc_pd
ServerAllocPd == ServerGoto("s48", "s49", <<"pd">>, <<>>)

\* line 49: ibv_create_cq
ServerCreateCq == ServerGoto("s49", "s56", <<"cq">>, <<>>)

\* line 51-56: rdma_create_qp
ServerCreateQp == ServerGoto("s56", "s58", <<"qp">>, <<>>)

\* line 58: ibv_reg_mr
ServerRegMr == ServerGoto("s58", "s65", <<"mr">>, <<>>)

\* ibv_post_recv of the whole buffer: a nonzero return ends the process;
\* else one receive work request is queued.
PostRecv(next) ==
    \/ /\ spc' = "exit1"
       /\ UNCHANGED rq
    \/ /\ spc' = next
       /\ rq' = rq + 1

ServerPostRecv(from, next) ==
    /\ spc = from
    /\ PostRecv(next)
    /\ UNCHANGED <<sres, sloc, cvars, cm, sq, ccq, scq, files, hist, hdr, platform>>

ServerPostRecvInitial_Skip == ServerGoto("s65", "s67", <<>>, <<>>)

\* line 60-65: the receive posted before the connection is accepted
ServerPostRecvInitial == ServerPostRecv("s65", "s67")

\* line 67-68: rdma_accept, result not looked at.  On success the client is
\* sent the connect response, on failure a reject.
ServerAccept ==
    /\ spc = "s67"
    /\ spc' = "s73"
    /\ IF conn = "requested"
       THEN \/ /\ conn' = "accepted"
               /\ cevq' = Append(cevq, "ESTABLISHED")
            \/ /\ conn' = "rejected"
               /\ cevq' = Append(cevq, "REJECTED")
       ELSE UNCHANGED <<conn, cevq>>
    /\ UNCHANGED <<sres, sloc, cvars, sevq, qp, files, hist, hdr, platform>>

ServerPollHeader_NoCheck ==
    /\ spc = "s73"
    /\ scq # <<>>
    /\ swc' = Head(scq)
    /\ scq' = Tail(scq)
    /\ slog' = Append(slog, [as |-> "hdr", kind |-> Head(scq).kind,
                             status |-> Head(scq).status,
                             len |-> Head(scq).byte_len])
    /\ spc' = "s82"
    /\ s_file_size' = DecodeHeader(Take(sbuf, HDR_SIZE), sLE)
    /\ UNCHANGED <<sres, sbuf, total, cvars, cm, sq, rq, ccq, files, hist, hdr, platform>>

ServerPollHeader_NoSizeCheck ==
    /\ spc = "s73"
    /\ scq # <<>>
    /\ swc' = Head(scq)
    /\ scq' = Tail(scq)
    /\ slog' = Append(slog, [as |-> "hdr", kind |-> Head(scq).kind,
                             status |-> Head(scq).status,
                             len |-> Head(scq).byte_len])
    /\ IF Head(scq).status = "ok"
       THEN /\ spc' = "s82"
            /\ s_file_size' = DecodeHeader(Take(sbuf, HDR_SIZE), sLE)
       ELSE /\ spc' = "exit1"
            /\ UNCHANGED s_file_size
    /\ UNCHANGED <<sres, sbuf, total, cvars, cm, sq, rq, ccq, files, hist, hdr, platform>>

\* line 73-80: spin for the first completion; exit(1) unless it succeeded
\* and delivered at least 8 bytes; decode those as file_size
ServerPollHeader ==
    /\ spc = "s73"
    /\ scq # <<>>
    /\ swc' = Head(scq)
    /\ scq' = Tail(scq)
    /\ slog' = Append(slog, [as |-> "hdr", kind |-> Head(scq).kind,
                             status |-> Head(scq).status,
                             len |-> Head(scq).byte_len])
    /\ IF Head(scq).status = "ok" /\ Head(scq).byte_len >= HDR_SIZE
       THEN /\ spc' = "s82"
            /\ s_file_size' = DecodeHeader(Take(sbuf, HDR_SIZE), sLE)
       ELSE /\ spc' = "exit1"
            /\ UNCHANGED s_file_size
    /\ UNCHANGED <<sres, sbuf, total, cvars, cm, sq, rq, ccq, files, hist, hdr, platform>>

\* line 82: the receive for the first data message
ServerPostRecvAfterHeader == ServerPostRecv("s82", "s84")

\* line 84-87: create or truncate received_file.bin; exit(1) on failure;
\* total = 0
ServerOpen ==
    /\ spc = "s84"
    /\ \/ /\ spc' = "s88"
          /\ dstFile' = <<>>
          /\ sacq' = Append(sacq, "fd")
          /\ total' = 0
       \/ /\ spc' = "exit1"
          /\ UNCHANGED <<dstFile, sacq, total>>
    /\ UNCHANGED <<srel, sevt, sbuf, s_file_size, swc, slog,
                   cvars, cm, qp, srcFile, nchg, hist, hdr, platform>>

\* line 88: while (total < file_size)
ServerLoopTest ==
    /\ spc = "s88"
    /\ spc' = IF NatLtU64(total, s_file_size) THEN "s89" ELSE "s101"
    /\ UNCHANGED <<sres, sloc, cvars, cm, qp, files, hist, hdr, platform>>

\* line 89-92: spin for a completion; a failed one breaks out of the loop;
\* an empty one skips the write
ServerPollData_RepostFirst ==
    /\ spc = "s89"
    /\ scq # <<>>
    /\ swc' = Head(scq)
    /\ scq' = Tail(scq)
    /\ rq' = rq + 1
    /\ slog' = Append(slog, [as |-> "data", kind |-> Head(scq).kind,
                             status |-> Head(scq).status,
                             len |-> Head(scq).byte_len])
    /\ spc' = IF Head(scq).status # "ok" THEN "s101"
              ELSE IF Head(scq).byte_len > 0 THEN "s93" ELSE "s98"
    /\ UNCHANGED <<sres, sbuf, s_file_size, total, cvars, cm, sq, ccq,
                   files, hist, hdr, platform>>

ServerPollData ==
    /\ spc = "s89"
    /\ scq # <<>>
    /\ swc' = Head(scq)
    /\ scq' = Tail(scq)
    /\ slog' = Append(slog, [as |-> "data", kind |-> Head(scq).kind,
                             status |-> Head(scq).status,
                             len |-> Head(scq).byte_len])
    /\ spc' = IF Head(scq).status # "ok" THEN "s101"
              ELSE IF Head(scq).byte_len > 0 THEN "s93" ELSE "s98"
    /\ UNCHANGED <<sres, sbuf, s_file_size, total, cvars, cm, sq, rq, ccq,
                   files, hist, hdr, platform>>

\* The counts a short write of got bytes may return: nothing, or all but
\* the last byte; one short write in a run.
ShortCounts(got) == IF "wshort" \in hist THEN {} ELSE {0, got - 1}

ServerWrite_WholeBuffer ==
    /\ spc = "s93"
    /\ dstFile' = dstFile \o sbuf
    /\ total' = total + BUF_SIZE
    /\ spc' = "s98"
    /\ UNCHANGED <<sres, sbuf, s_file_size, swc, slog, cvars, cm, qp,
                   srcFile, nchg, hist, hdr, platform>>

\* line 93-95: write got bytes of buf to the file.  w < 0 breaks out of the
\* loop; otherwise the w bytes written (w <= got) are added to total.
ServerWrite ==
    /\ spc = "s93"
    /\ LET got == swc.byte_len
       IN \/ \E w \in {got} \cup ShortCounts(got) :
                /\ dstFile' = dstFile \o Take(sbuf, w)
                /\ total' = total + w
                /\ hist' = IF w < got THEN hist \cup {"wshort"} ELSE hist
                /\ spc' = "s98"
          \/ /\ spc' = "s101"
             /\ hist' = hist \cup {"wfail"}
             /\ UNCHANGED <<dstFile, total>>
    /\ UNCHANGED <<sres, sbuf, s_file_size, swc, slog, cvars, cm, qp,
                   srcFile, nchg, hdr, platform>>

\* line 98: the receive for the next chunk
ServerPostRecvNext_Skip == ServerGoto("s98", "s88", <<>>, <<>>)

ServerPostRecvNext == ServerPostRecv("s98", "s88")

\* line 101: printf "File saved to received_file.bin (total bytes)"
ServerReportSaved == ServerGoto("s101", "s102", <<>>, <<>>)

\* line 102: close
ServerClose == ServerGoto("s102", "s104", <<>>, <<"fd">>)

\* line 104: rdma_disconnect
ServerDisconnect == ServerGoto("s104", "s105", <<>>, <<>>)

\* line 105: rdma_destroy_qp
ServerDestroyQp == ServerGoto("s105", "s106", <<>>, <<"qp">>)

\* line 106: ibv_dereg_mr
ServerDeregMr == ServerGoto("s106", "s107", <<>>, <<"mr">>)

\* line 107: free
ServerFree == ServerGoto("s107", "s108", <<>>, <<"buf">>)

\* line 108: rdma_destroy_id(conn_id)
ServerDestroyConnId == ServerGoto("s108", "s109", <<>>, <<"conn_id">>)

\* line 109: rdma_destroy_id(listen_id)
ServerDestroyListenId == ServerGoto("s109", "s110", <<>>, <<"listen_id">>)

\* line 110-111: rdma_destroy_event_channel; return 0
ServerDestroyChannel == ServerGoto("s110", "exit0", <<>>, <<"ec">>)

\* The receiver has reported the file as saved.
ServerComplete ==
    spc \in {"s102", "s104", "s105", "s106", "s107", "s108", "s109", "s110", "exit0"}

Server ==
    \/ ServerCreateChannel \/ ServerMalloc \/ ServerGetAddrInfo \/ ServerCreateId
    \/ ServerBind \/ ServerListen \/ ServerGetEvent \/ ServerAckEvent
    \/ ServerAllocPd \/ ServerCreateCq \/ ServerCreateQp \/ ServerRegMr
    \/ ServerPostRecvInitial \/ ServerAccept \/ ServerPollHeader
    \/ ServerPostRecvAfterHeader \/ ServerOpen \/ ServerLoopTest
    \/ ServerPollData \/ ServerWrite \/ ServerPostRecvNext
    \/ ServerReportSaved \/ ServerClose \/ ServerDisconnect \/ ServerDestroyQp
    \/ ServerDeregMr \/ ServerFree \/ ServerDestroyConnId \/ ServerDestroyListenId
    \/ ServerDestroyChannel


\* ------------------------------------------------------------------------
\* Environment: the reliable connection, the connection manager, the files
\* ------------------------------------------------------------------------

\* The message at the head of the send queue reaches the receiver, is
\* placed in the buffer of the posted receive and is acknowledged: both
\* work requests complete with success.  While no receive is posted the
\* receiver answers receiver-not-ready and the sender's queue pair retries
\* (rdma_connect with no parameters asks for unlimited retries): nothing
\* changes until a receive is posted.
Deliver ==
    /\ sq # <<>>
    /\ conn = "established"
    /\ rq > 0
    /\ ~ServerEnded
    /\ LET m == Head(sq)
       IN /\ sbuf' = StoreAt0(sbuf, Take(cbuf, m.len))
          /\ scq' = Append(scq, [status |-> "ok", byte_len |-> m.len, kind |-> m.kind])
          /\ ccq' = Append(ccq, [status |-> "ok", byte_len |-> m.len, kind |-> m.kind])
    /\ sq' = Tail(sq)
    /\ rq' = rq - 1
    /\ UNCHANGED <<spc, sres, s_file_size, total, swc, slog, cvars, cm, files,
                   hist, hdr, platform>>

\* The send completes in error: the connection is not established, the
\* peer is gone, or the transport gave up.
SendFails ==
    /\ sq # <<>>
    /\ ccq' = Append(ccq, [status |-> "err", byte_len |-> 0, kind |-> Head(sq).kind])
    /\ sq' = Tail(sq)
    /\ hist' = hist \cup {"wcfail"}
    /\ UNCHANGED <<cvars, svars, cm, rq, scq, files, hdr, platform>>

\* A posted receive completes in error (its queue pair went to the error
\* state).
RecvFails ==
    /\ rq > 0
    /\ scq' = Append(scq, [status |-> "err", byte_len |-> 0, kind |-> "none"])
    /\ rq' = rq - 1
    /\ hist' = hist \cup {"wcfail"}
    /\ UNCHANGED <<cvars, svars, cm, sq, ccq, files, hdr, platform>>

\* The server process ended before it accepted: the request is rejected.
ConnLost ==
    /\ conn = "requested"
    /\ ServerEnded
    /\ conn' = "rejected"
    /\ cevq' = Append(cevq, "REJECTED")
    /\ UNCHANGED <<cvars, svars, sevq, qp, files, hist, hdr, platform>>

\* Lengths a file of length n is truncated to: empty, half, one byte less.
TruncTargets(n) == {k \in {0, n \div 2, n - 1} : 0 <= k /\ k < n}

\* Another process truncates the source file while the sender has it open.
SrcTruncate ==
    /\ ClientFileOpen
    /\ nchg < MaxChanges
    /\ \E n \in TruncTargets(Len(srcFile)) : srcFile' = Take(srcFile, n)
    /\ nchg' = nchg + 1
    /\ UNCHANGED <<cvars, svars, cm, qp, dstFile, hist, hdr, platform>>

\* Another process appends to the source file while the sender has it open.
SrcAppend ==
    /\ ClientFileOpen
    /\ nchg < MaxChanges
    /\ srcFile' = Append(srcFile, 238)
    /\ nchg' = nchg + 1
    /\ UNCHANGED <<cvars, svars, cm, qp, dstFile, hist, hdr, platform>>

Environment ==
    \/ Deliver \/ SendFails \/ RecvFails \/ ConnLost
    \/ SrcTruncate \/ SrcAppend

Next == Client \/ Server \/ Environment

Spec == Init /\ [][Next]_vars

\* Both programs are scheduled fairly (each is a sequential process that
\* keeps running: its polls are busy loops, its calls return), and the
\* reliable connection keeps retrying a send for which a receive is posted
\* until it is delivered.  Faults and file changes stay possible at any
\* time but are never forced.
SpecLive ==
    /\ Spec
    /\ WF_vars(Client)
    /\ WF_vars(Server)
    /\ WF_vars(Deliver)

\* ------------------------------------------------------------------------
\* The header codec on its own, over lengths from the whole 64-bit range
\* ------------------------------------------------------------------------

\* Digits the lengths are built from: the extremes and the sign bits' edge.
HdrDigits == {0, 1, 255}

HdrInputs == [1..8 -> HdrDigits]

InitHeader ==
    /\ InitCommon
    /\ cLE \in BOOLEAN /\ sLE \in BOOLEAN
    /\ srcFile = <<>>
    /\ hdrStep = "in" /\ hdrIn \in HdrInputs /\ hdrWire = Zero64 /\ hdrOut = Zero64

\* client line 76, 85: what the sender puts on the wire for file_size
HeaderEncode ==
    /\ hdrStep = "in"
    /\ hdrStep' = "wire"
    /\ hdrWire' = EncodeHeader(hdrIn, cLE)
    /\ UNCHANGED <<hdrIn, hdrOut, platform, cvars, svars, cm, qp, files, hist>>

\* server line 79-80: what the receiver makes of the 8 bytes
HeaderDecode ==
    /\ hdrStep = "wire"
    /\ hdrStep' = "out"
    /\ hdrOut' = DecodeHeader(hdrWire, sLE)
    /\ UNCHANGED <<hdrIn, hdrWire, platform, cvars, svars, cm, qp, files, hist>>

NextHeader == HeaderEncode \/ HeaderDecode

SpecHeader == InitHeader /\ [][NextHeader]_vars


\* ------------------------------------------------------------------------
\* The receiver facing any sender: the peer of the server's queue pair is
\* whatever program connected to port 7471, and may send messages of any
\* length in any number.  The client program does not run here; clog
\* records what the peer sent.
\* ------------------------------------------------------------------------

\* How many messages the peer sends at most.
MaxPeerMsgs == 3

\* Lengths the peer's first message announces (sent big-endian).
PeerSizes == {0, 1, BUF_SIZE + 1}

\* Byte counts of the peer's messages: none, one, just short of a header,
\* a header, a full buffer.
PeerLens == {0, 1, HDR_SIZE - 1, HDR_SIZE, BUF_SIZE}

InitPeer ==
    /\ cpc = "peer" /\ cacq = <<>> /\ crel = <<>>
    /\ cevt = "none" /\ cbuf = EmptyBuf /\ fpos = 0 /\ c_file_size = Zero64
    /\ r = 0 /\ cwc = NoWc /\ clog = <<>> /\ csent = 0
    /\ spc = "s25" /\ sacq = <<>> /\ srel = <<>>
    /\ sevt = "none" /\ sbuf = EmptyBuf /\ s_file_size = Zero64
    /\ total = 0 /\ swc = NoWc /\ slog = <<>>
    /\ conn = "idle" /\ cevq = <<>> /\ sevq = <<>>
    /\ sq = <<>> /\ rq = 0 /\ ccq = <<>> /\ scq = <<>>
    /\ dstFile = OldDst /\ nchg = 0
    /\ hist = {}
    /\ cLE = FALSE /\ sLE \in BOOLEAN
    /\ srcFile = <<>>
    /\ hdrStep = "off" /\ hdrIn = Zero64 /\ hdrWire = Zero64 /\ hdrOut = Zero64

\* The peer asks for a connection while the server listens (line 40-44).
PeerConnect ==
    /\ cpc = "peer"
    /\ conn = "idle"
    /\ ServerListening
    /\ conn' = "requested"
    /\ sevq' = Append(sevq, "CONNECT_REQUEST")
    /\ UNCHANGED <<cvars, svars, cevq, qp, files, hist, hdr, platform>>

\* The peer learns the outcome of rdma_accept (line 67).
PeerEstablished ==
    /\ cpc = "peer"
    /\ cevq # <<>>
    /\ conn' = IF Head(cevq) = "ESTABLISHED" THEN "established" ELSE conn
    /\ cevq' = Tail(cevq)
    /\ UNCHANGED <<cvars, svars, sevq, qp, files, hist, hdr, platform>>

\* A message of n bytes from the peer lands in the posted receive (line 65,
\* 82, 98): the first one holds the leading n bytes of an encoded length,
\* the later ones file bytes.
PeerSend ==
    /\ cpc = "peer"
    /\ conn = "established"
    /\ rq > 0
    /\ ~ServerEnded
    /\ Len(clog) < MaxPeerMsgs
    /\ \E n \in PeerLens :
          \E bytes \in IF clog = <<>>
                       THEN {Take(U64(L) \o Pattern(BUF_SIZE, 0), n) : L \in PeerSizes}
                       ELSE {Pattern(n, 16 * Len(clog))} :
             /\ sbuf' = StoreAt0(sbuf, bytes)
             /\ scq' = Append(scq, [status |-> "ok", byte_len |-> n, kind |-> "peer"])
             /\ clog' = Append(clog, [kind |-> "peer", len |-> n])
    /\ rq' = rq - 1
    /\ UNCHANGED <<cpc, cres, cbuf, fpos, c_file_size, r, cwc, csent,
                   spc, sres, s_file_size, total, swc, slog, cm, sq, ccq,
                   files, hist, hdr, platform>>

Peer == PeerConnect \/ PeerEstablished \/ PeerSend

NextPeer == Peer \/ Server \/ RecvFails

SpecPeer == InitPeer /\ [][NextPeer]_vars

\* ------------------------------------------------------------------------
\* Claims
\* ------------------------------------------------------------------------

\* total <= file_size at the receiver
NatLeU64(n, x) == NatLtU64(n, x) \/ NatEqU64(n, x)

\* Nothing went wrong in the environment: every completion successful,
\* every read and write full, the source file untouched.
CleanRun == hist = {} /\ nchg = 0

\* C1: round trip.  When sender and receiver have both run to the end of a
\* clean run, the destination file holds exactly the bytes of the source
\* file, in order.
C1_RoundTrip ==
    (cpc = "exit0" /\ spc = "exit0" /\ CleanRun) => dstFile = srcFile

C1_Witness ==
    /\ cpc = "exit0" /\ spc = "exit0" /\ CleanRun
    /\ Len(srcFile) > BUF_SIZE
    /\ Len(srcFile) % BUF_SIZE # 0

\* C2: the receiver reports the file as saved only when the bytes it wrote
\* equal the declared length exactly; a receiver whose loop stopped early
\* does not report completion.  (The sender's side of the claim is C4's.)
C2_CompleteOnlyWhenAllTransferred ==
    ServerComplete => NatEqU64(total, s_file_size)

\* C3: at the receiver the running total never exceeds the length decoded
\* from the header.
C3_NeverExceedsDeclared ==
    spc \notin {"s25", "s31", "s36", "s38", "s39", "s40", "s44", "s46", "s48",
                "s49", "s56", "s58", "s65", "s67", "s73"}
        => NatLeU64(total, s_file_size)

\* C4: when the source file was truncated during the send and the data
\* bytes transmitted sum to less than the header declared, the sender does
\* not report success.
C4_ShortSendNotReportedAsSuccess ==
    (nchg > 0 /\ hist = {} /\ NatLtU64(csent, c_file_size)) => ~ClientComplete

\* C5: at most one send and at most one receive work request are posted and
\* not yet consumed: a new one is posted only after the completion of the
\* one before has been polled.
C5_OneOutstanding ==
    /\ Len(sq) + Len(ccq) <= 1
    /\ rq + Len(scq) <= 1

C5_Witness ==
    /\ sq # <<>> /\ Head(sq).kind = "data" /\ rq = 1
    /\ Len(clog) >= 3

\* C6: the first send the client posts is the 8-byte header, every later
\* one is data and is posted after the header's completion was polled with
\* success; the server takes its first completion as the header and every
\* later one as data, as the client meant them.
C6_HeaderFirst ==
    /\ \A i \in 1..Len(clog) :
          IF i = 1 THEN clog[i] = [kind |-> "hdr", len |-> HDR_SIZE]
                   ELSE clog[i].kind = "data"
    /\ (Len(clog) = 2 /\ Len(sq) + Len(ccq) > 0)
          => (cwc.kind = "hdr" /\ cwc.status = "ok")
    /\ \A i \in 1..Len(slog) :
          /\ slog[i].as = IF i = 1 THEN "hdr" ELSE "data"
          /\ slog[i].status = "ok" => slog[i].kind = slog[i].as

C6_Witness ==
    /\ Len(clog) >= 3
    /\ Len(slog) >= 3
    /\ slog[3].status = "ok"

\* C7: the length the receiver decodes equals the length the sender
\* encoded, and the 8 bytes in between are that length most significant
\* byte first, whatever the byte order of either host.
C7_HeaderIntegrity ==
    /\ hdrStep \in {"wire", "out"} => hdrWire = hdrIn
    /\ hdrStep = "out" => hdrOut = hdrIn

C7_Witness ==
    /\ hdrStep = "out"
    /\ cLE /\ ~sLE
    /\ hdrIn = <<255, 1, 0, 0, 1, 0, 255, 0>>
    /\ hdrOut = hdrIn

\* C8: no send work request is posted in a run whose connection was not
\* established.
C8_NoSendUnlessConnected ==
    clog # <<>> => conn = "established"

\* Something went wrong in the receiver's streaming loop: a completion
\* without success, a failed write or a short write.
LoopFault ==
    \/ hist \cap {"wshort", "wfail"} # {}
    \/ \E i \in 2..Len(slog) : slog[i].status # "ok"

\* C9: after a fault in the streaming loop the receiver is out of the loop,
\* and the count it reports is the number of bytes in the file.
C9_LoopFaultIsFatal ==
    /\ LoopFault => spc \notin {"s88", "s89", "s93", "s98"}
    /\ ServerComplete => total = Len(dstFile)

\* The RDMA resources among a list of resources.
RdmaOnly(seq) ==
    SelectSeq(seq, LAMBDA x : x \in {"ec", "id", "conn_id", "listen_id",
                                      "pd", "cq", "qp", "mr"})

\* C10: a process that ends on an error has released every RDMA resource it
\* acquired, in reverse order of acquisition.
C10_ErrorReleasesAll ==
    /\ cpc \in {"exit1", "crash"} => RdmaOnly(crel) = Reverse(RdmaOnly(cacq))
    /\ spc \in {"exit1", "crash"} => RdmaOnly(srel) = Reverse(RdmaOnly(sacq))

\* The source file was not changed and every read of it succeeded.
StableSource == nchg = 0 /\ "rderr" \notin hist

\* The number of bytes of the k-th chunk of a file of L bytes.
ChunkLen(L, k) == Min(BUF_SIZE, L - (k - 1) * BUF_SIZE)

\* C11: for a stable source file of L bytes the data messages are the
\* chunks of BUF_SIZE bytes in order, the last one holding the rest; a
\* sender that reports success has posted ceil(L / BUF_SIZE) of them; for
\* L = 0 the receiver completes having consumed the header only.
C11_ChunkCount ==
    /\ StableSource =>
          \A i \in 2..Len(clog) : clog[i].len = ChunkLen(Len(srcFile), i - 1)
    /\ (StableSource /\ ClientComplete) =>
          Len(clog) - 1 = (Len(srcFile) + BUF_SIZE - 1) \div BUF_SIZE
    /\ (CleanRun /\ ServerComplete /\ Len(srcFile) = 0) =>
          (Len(slog) = 1 /\ total = 0)

C11_Witness ==
    /\ ClientComplete /\ ServerComplete /\ CleanRun
    /\ Len(srcFile) = BUF_SIZE + 1
    /\ Len(clog) = 3
    /\ clog[2].len = BUF_SIZE
    /\ clog[3].len = 1

\* server line 60: the receive work request covers the whole buffer
RecvSgeLen == BUF_SIZE

\* C12: every data message posted and every data completion consumed with
\* success carries more than 0 and at most BUF_SIZE bytes; every work
\* request, starting at the buffer's first byte, ends within the buffer.
C12_ChunkBounds ==
    /\ \A i \in 1..Len(clog) :
          /\ clog[i].len <= BUF_SIZE
          /\ clog[i].kind = "data" => clog[i].len > 0
    /\ \A i \in 2..Len(slog) :
          slog[i].status = "ok" => (slog[i].len > 0 /\ slog[i].len <= BUF_SIZE)
    /\ RecvSgeLen <= BUF_SIZE

C12_Witness ==
    /\ Len(slog) >= 3
    /\ slog[2].status = "ok" /\ slog[2].len = BUF_SIZE
    /\ slog[3].status = "ok" /\ slog[3].len = 1

\* C13: when the first message the receiver gets delivers fewer than 8
\* bytes, the receiver ends with exit(1) at the header check: it has
\* decoded no length, consumed no further completion, entered no loop,
\* opened no file and never reports the file as saved.
C13_ShortHeaderIsFatal ==
    (slog # <<>> /\ slog[1].status = "ok" /\ slog[1].len < HDR_SIZE) =>
        /\ spc = "exit1"
        /\ s_file_size = Zero64
        /\ Len(slog) = 1
        /\ "fd" \notin {sacq[i] : i \in 1..Len(sacq)}
        /\ dstFile = OldDst

C13_Witness ==
    /\ slog # <<>>
    /\ slog[1].status = "ok"
    /\ slog[1].len = HDR_SIZE - 1
    /\ spc = "exit1"

\* Both programs returned 0 from main.
BothDone == cpc = "exit0" /\ spc = "exit0"

\* A call made by either program failed and ended it.
CallFailed == cpc \in {"exit1", "crash"} \/ spc \in {"exit1", "crash"}

C15_ReceiveArmedOnArrival ==
    (CleanRun /\ conn = "established" /\ ~ServerEnded /\ sq # <<>>) => rq > 0

\* C16: a program that returns 0 has released its RDMA resources in the
\* order memory region, queue pair, completion queue, protection domain,
\* connection id(s), event channel, and so has left none of them
\* unreleased.
C16_TeardownOrder ==
    /\ cpc = "exit0" => RdmaOnly(crel) = <<"mr", "qp", "cq", "pd", "id", "ec">>
    /\ spc = "exit0" =>
          RdmaOnly(srel) = <<"mr", "qp", "cq", "pd", "conn_id", "listen_id", "ec">>

\* Receive work requests the server has posted so far: those still
\* posted, those completed and those whose completion it has consumed.
RecvPosted == rq + Len(scq) + Len(slog)

\* The resources the server holds.
ServerHolds == {sacq[i] : i \in 1..Len(sacq)} \ {srel[i] : i \in 1..Len(srel)}

\* C17: when the server is about to call rdma_accept it has created the
\* queue pair, registered the buffer and posted exactly one receive; so
\* from the moment the connection is accepted a receive has been posted,
\* and it is still posted while nothing was sent and nothing failed.
C17_ReceiveBeforeAccept ==
    /\ spc = "s67" => ({"qp", "mr"} \subseteq ServerHolds /\ RecvPosted = 1)
    /\ conn \in {"accepted", "established"} => RecvPosted >= 1
    /\ (conn = "accepted" /\ hist = {}) => rq = 1

C17_Witness ==
    /\ conn = "accepted"
    /\ spc = "s73"
    /\ rq = 1
    /\ cpc = "c65"

\* An event the client / the server has read and not yet acknowledged.
ClientHoldsEvent == cevt \notin {"none", "stale"}

ServerHoldsEvent == sevt # "none"

\* C18: a role holds a read, unacknowledged connection-manager event only
\* at the line of the rdma_ack_cm_event that follows the read; the step it
\* takes while holding one is that acknowledgement, so it makes no other
\* connection-manager call and reads no second event in between, and it
\* holds none when it ends.
C18_AckRightAfterRead ==
    /\ [](/\ ClientHoldsEvent => cpc \in {"c46", "c50", "c66"}
          /\ ServerHoldsEvent => spc = "s46")
    /\ [][/\ (ClientHoldsEvent /\ cpc' # cpc) => cevt' = "none"
          /\ (ServerHoldsEvent /\ spc' # spc) => sevt' = "none"
          /\ (ClientHoldsEvent /\ cpc' = cpc) => UNCHANGED <<cevt, cevq>>
          /\ (ServerHoldsEvent /\ spc' = spc) => UNCHANGED <<sevt, sevq>>]_vars

C18_Witness ==
    /\ cevt = "ESTABLISHED"
    /\ cpc = "c66"
    /\ sevt = "none"
    /\ spc = "s73"

\* The server's buffer holds a message the server has not finished
\* reading: its completion is not yet consumed, or the chunk is not yet
\* written to the file.
BufferUnread == scq # <<>> \/ spc = "s93"

\* C19: while the buffer holds a message the receiver has not finished
\* reading, no receive that targets the buffer is posted and the buffer
\* does not change; at most one receive is posted or completed and not
\* consumed at any time.
C19_ReadBeforeRepost ==
    /\ [](/\ rq + Len(scq) <= 1
          /\ BufferUnread => rq = 0)
    /\ [][BufferUnread => sbuf' = sbuf]_vars

C19_Witness ==
    /\ spc = "s93"
    /\ rq = 0
    /\ sq # <<>>
    /\ conn = "established"
    /\ CleanRun

\* The server has consumed a first completion that succeeded and delivered
\* at least the 8 bytes of a header.
HeaderReceived ==
    /\ slog # <<>>
    /\ slog[1].status = "ok"
    /\ slog[1].len >= HDR_SIZE

\* The server has called open on received_file.bin with success.
DstOpened == "fd" \in {sacq[i] : i \in 1..Len(sacq)}

\* C20: the receiver has opened (created or truncated) the destination
\* file only if a first message of at least 8 bytes was received with
\* success and decoded; as long as it has not, and so in every run that
\* ends during connection setup or the header phase, the destination file
\* is what it was before the run.
C20_NoFileBeforeHeader ==
    /\ DstOpened => (HeaderReceived /\ spc \notin {"s73", "s82", "s84"})
    /\ ~DstOpened => dstFile = OldDst
    /\ ~HeaderReceived => ~DstOpened

C20_Witness ==
    /\ DstOpened
    /\ HeaderReceived
    /\ spc = "s88"
    /\ dstFile = <<>>
    /\ slog[1].len = HDR_SIZE

====
